---------------------------- MODULE Spec2Model ----------------------------
(***************************************************************************)
(* Verification model of the chess_bot search core:                        *)
(*   src/engine/minimax.py        ChessEngine (iterative deepening,        *)
(*                                alpha-beta, quiescence, move ordering)   *)
(*   src/engine/transposition.py  TranspositionTable                       *)
(*   src/engine/evaluator.py      Evaluator.evaluate (terminal cases and   *)
(*                                the null-move push/pop of mobility)      *)
(*   src/main.py                  ChessBot (game loop, worker thread)      *)
(*                                                                         *)
(* The rules engine (python-chess) is external to the repository.  It is   *)
(* represented by a small family of game graphs: positions are named,      *)
(* every position has a fixed list of legal moves in generation order, and *)
(* the family is spanned by the variables status, ev and ply0 chosen in    *)
(* Init.  The engine itself is a step machine: one action per entry of a   *)
(* search function and one per return into its caller.                     *)
(*                                                                         *)
(* Specifications: Spec (the engine and its callers), TTSpec (the table    *)
(* on its own), EvalSpec (the evaluator on its own), NodeSpec (one         *)
(* _alpha_beta call on a table holding any one entry), BotSpec (the        *)
(* orchestrator and its worker thread).                                    *)
(***************************************************************************)
EXTENDS Integers, Sequences, FiniteSets, TLC

VARIABLES
    status,         \* game: position -> "normal" | "mate" | "stalemate" | "draw"
    ev,             \* game: position -> value of Evaluator.evaluate at a non-terminal position
    ply0,           \* game: board.ply() of the position handed to find_best_move
    use_quiescence, \* ChessEngine.use_quiescence
    board,          \* chess.Board: the positions along the move stack, root first
    tt,             \* TranspositionTable: [table, age]
    killer_moves,   \* ChessEngine.killer_moves
    history,        \* ChessEngine.history
    nodes_searched, \* ChessEngine.nodes_searched
    expired,        \* TRUE once a _time_up() call has returned True in this search
    pc,             \* position of find_best_move
    iter,           \* locals of find_best_move: depth, best_move, best_score, score, move
    stack,          \* frames of _search_root / _alpha_beta / _quiescence, innermost last
    ret,            \* value returned by the frame that returned last
    result,         \* how the last call ended: the value returned, or the exception raised
    searches,       \* calls of find_best_move or _search_root made so far
    obs,            \* observations of the running engine used by the properties
    tt_log,         \* last operation applied to the table by a direct caller
    ev_log,         \* the evaluate calls a direct caller made on its board
    bot,            \* ChessBot (src/main.py): the game loop and its worker thread
    order_log       \* the last _order_moves call of a direct caller

vars == <<status, ev, ply0, use_quiescence, board, tt, killer_moves, history,
          nodes_searched, expired, pc, iter, stack, ret, result, searches,
          obs, tt_log, ev_log, bot, order_log>>

-----------------------------------------------------------------------------
(* Program constants and model bounds *)

MATE_SCORE == 100000

MateWindow == 100

KillerSlots == 64

\* ChessEngine.max_depth (5 by default), scaled
MaxDepth == 4

\* ChessEngine.quiescence_depth (8 by default), scaled
QuiescenceDepth == 2

\* TranspositionTable.max_entries (size_mb * 2^20 / 64 in the code), scaled
MaxEntries == 4

\* the node interval of the periodic deadline check (4096 in the code), scaled
CheckInterval == 5

\* calls of find_best_move or _search_root per behaviour
MaxSearches == 2

\* new_search calls per behaviour of the table-only specification
MaxAge == 2

\* largest depth argument of a direct store
MaxStoreDepth == 2

\* consecutive evaluate calls a direct caller makes on one position
MaxEvalCalls == 2

\* games the orchestrator plays per behaviour
MaxGames == 2

\* table writes one worker-thread search makes
MaxThreadSteps == 2

\* largest depth argument of a direct _order_moves call
MaxOrderDepth == 2

\* largest history weight the searches before such a call have credited
MaxHistoryWeight == 4

-----------------------------------------------------------------------------
(* chess.Move *)

Mv(f, t, p) == [from |-> f, to |-> t, promotion |-> p]

\* Python's None where a move is expected
NoMove == Mv(-1, -1, 0)

-----------------------------------------------------------------------------
(* The game graph.  W is the side to move at the root. *)

\* Positions.  "R" (W to move) is the root.  "A", "B", "D", "X" and "SB*" have B
\* to move, the others W.  "P" is reached after 2 plies (R-A-P) and after 4
\* (R-B-C-D-P).  "C" is reached after 2 plies by two move orders (R-A-C and
\* R-B-C).  "MA", "MB", "MX" follow the captures at "A", "B", "X".
\* SW1 -> SB1 -> SW2 -> SB2 -> SW1 is a cycle of quiet moves.  "O" (W to move)
\* is a position of another game, with moves of every kind _order_moves tells
\* apart: quiet moves, captures, a promotion and an en-passant capture.
\* "T" (W to move) is the root of a third game: a quiet move to "TD" and a
\* line of captures T -> T1 -> ... -> T9, each of which wins material back
\* for the side that makes it.
Positions ==
    {"R", "A", "B", "P", "C", "D", "X", "MA", "MB", "MX", "SB1", "SW2", "SB2", "SW1", "O",
     "T", "TD", "T1", "T2", "T3", "T4", "T5", "T6", "T7", "T8", "T9"}

Edge(s, m, d, cap, vic, att) ==
    [src |-> s, move |-> m, dst |-> d, capture |-> cap, victim |-> vic, attacker |-> att]

\* Legal moves in the order board.legal_moves generates them.  victim and
\* attacker are piece types (1 pawn .. 6 king); victim 0 is an en-passant
\* capture, where piece_at(to_square) is None.
Edges == <<
    Edge("R",  Mv(1, 2, 0),   "A",   FALSE, 0, 0),
    Edge("R",  Mv(3, 4, 0),   "B",   FALSE, 0, 0),
    Edge("A",  Mv(5, 6, 0),   "P",   FALSE, 0, 0),
    Edge("A",  Mv(7, 2, 0),   "MA",  TRUE,  2, 1),
    Edge("A",  Mv(9, 10, 0),  "C",   FALSE, 0, 0),
    Edge("B",  Mv(5, 6, 0),   "C",   FALSE, 0, 0),
    Edge("B",  Mv(7, 4, 0),   "MB",  TRUE,  3, 5),
    Edge("P",  Mv(3, 4, 0),   "X",   FALSE, 0, 0),
    Edge("C",  Mv(1, 2, 0),   "D",   FALSE, 0, 0),
    Edge("D",  Mv(9, 10, 0),  "P",   FALSE, 0, 0),
    Edge("D",  Mv(11, 12, 5), "SW1", FALSE, 0, 0),
    Edge("X",  Mv(9, 10, 0),  "SW1", FALSE, 0, 0),
    Edge("X",  Mv(7, 4, 0),   "MX",  TRUE,  0, 1),
    Edge("MA", Mv(13, 14, 0), "SB1", FALSE, 0, 0),
    Edge("MB", Mv(13, 14, 0), "SB1", FALSE, 0, 0),
    Edge("MX", Mv(13, 14, 0), "SB1", FALSE, 0, 0),
    Edge("SW1", Mv(15, 16, 0), "SB1", FALSE, 0, 0),
    Edge("SB1", Mv(17, 18, 0), "SW2", FALSE, 0, 0),
    Edge("SW2", Mv(16, 15, 0), "SB2", FALSE, 0, 0),
    Edge("SB2", Mv(18, 17, 0), "SW1", FALSE, 0, 0),
    Edge("O",  Mv(21, 22, 0), "SB1", FALSE, 0, 0),
    Edge("O",  Mv(21, 30, 0), "SB1", TRUE,  1, 2),
    Edge("O",  Mv(23, 24, 0), "SB1", FALSE, 0, 0),
    Edge("O",  Mv(25, 32, 0), "SB1", TRUE,  5, 1),
    Edge("O",  Mv(27, 28, 5), "SB1", FALSE, 0, 0),
    Edge("O",  Mv(25, 26, 0), "SB1", FALSE, 0, 0),
    Edge("O",  Mv(29, 31, 0), "SB1", TRUE,  0, 1),
    Edge("T",  Mv(41, 42, 0), "TD",  FALSE, 0, 0),
    Edge("T",  Mv(43, 44, 0), "T1",  TRUE,  1, 1),
    Edge("T1", Mv(45, 44, 0), "T2",  TRUE,  1, 1),
    Edge("T2", Mv(46, 44, 0), "T3",  TRUE,  1, 2),
    Edge("T3", Mv(47, 44, 0), "T4",  TRUE,  2, 2),
    Edge("T4", Mv(48, 44, 0), "T5",  TRUE,  2, 3),
    Edge("T5", Mv(49, 44, 0), "T6",  TRUE,  3, 3),
    Edge("T6", Mv(50, 44, 0), "T7",  TRUE,  3, 4),
    Edge("T7", Mv(51, 44, 0), "T8",  TRUE,  4, 4),
    Edge("T8", Mv(52, 44, 0), "T9",  TRUE,  4, 5)
>>

EdgesOf(p) == SelectSeq(Edges, LAMBDA e : e.src = p)

EdgeOf(p, m) == CHOOSE i \in 1 .. Len(Edges) : Edges[i].src = p /\ Edges[i].move = m

\* board.is_checkmate()
IsCheckmate(p) == status[p] = "mate"

\* board.is_stalemate() or board.is_insufficient_material() or board.can_claim_draw()
IsDraw(p) == status[p] \in {"stalemate", "draw"}

\* list(board.legal_moves): a checkmated or stalemated side has none
LegalMoves(p) ==
    IF status[p] \in {"mate", "stalemate"} THEN <<>>
    ELSE [i \in 1 .. Len(EdgesOf(p)) |-> EdgesOf(p)[i].move]

\* board.is_capture(move)
IsCapture(p, m) == Edges[EdgeOf(p, m)].capture

Victim(p, m) == Edges[EdgeOf(p, m)].victim

Attacker(p, m) == Edges[EdgeOf(p, m)].attacker

-----------------------------------------------------------------------------
(* chess.Board: push, pop, ply *)

Top(b) == b[Len(b)]

Push(b, m) == Append(b, Edges[EdgeOf(Top(b), m)].dst)

\* board.push(chess.Move.null()): the same placement with the other side to move
PushNull(b) == Append(b, "null")

Pop(b) == SubSeq(b, 1, Len(b) - 1)

\* board.ply(): plies played in the game, not plies below the search root
Ply(b) == ply0 + Len(b) - 1

-----------------------------------------------------------------------------
(* Scores.  Python keeps int and float apart: the terminal scores, the      *)
(* deadline abort's 0 and the initial bounds are int, the weighted sum of   *)
(* Evaluator.evaluate is a float.  v is the number, f says it is a float.   *)

IntScore(n) == [v |-> n, f |-> FALSE]

FloatScore(n) == [v |-> n, f |-> TRUE]

Neg(s) == [v |-> 0 - s.v, f |-> s.f]

\* max(a, b) and min(a, b) of Python return a unless b is strictly better
PyMax(a, b) == IF b.v > a.v THEN b ELSE a

PyMin(a, b) == IF b.v < a.v THEN b ELSE a

Abs(n) == IF n < 0 THEN 0 - n ELSE n

-----------------------------------------------------------------------------
(* Evaluator *)

\* A faulty variant that leaves the null move on the board:
MobilityWithoutPop(b) == PushNull(b)

\* A faulty mobility term that pops a move it has not pushed:
MobilityPopOnly(b) == IF Len(b) > 1 THEN Pop(b) ELSE PushNull(b)

\* Evaluator._evaluate_mobility: the null move is pushed and popped again
EvaluateMobilityBoard(b) == Pop(PushNull(b))

\* Evaluator.evaluate: the value returned
Evaluate(b) ==
    IF IsCheckmate(Top(b)) THEN IntScore(0 - MATE_SCORE)
    ELSE IF IsDraw(Top(b)) THEN IntScore(0)
    ELSE FloatScore(ev[Top(b)])

\* Evaluator.evaluate: the board it leaves behind
BoardAfterEvaluate(b) ==
    IF IsCheckmate(Top(b)) \/ IsDraw(Top(b)) THEN b ELSE EvaluateMobilityBoard(b)

-----------------------------------------------------------------------------
(* TranspositionTable *)

\* The Zobrist hash of a position: distinct 64-bit keys for distinct positions
ZobristKey ==
    [R |-> 11, A |-> 14, B |-> 17, P |-> 20, C |-> 23, D |-> 34, X |-> 29,
     MA |-> 32, MB |-> 35, MX |-> 38, SB1 |-> 41, SW2 |-> 44, SB2 |-> 47, SW1 |-> 50,
     O |-> 53, T |-> 56, TD |-> 59, T1 |-> 62, T2 |-> 65, T3 |-> 68, T4 |-> 71, T5 |-> 74,
     T6 |-> 77, T7 |-> 80, T8 |-> 83, T9 |-> 86]

HashPosition(p) == ZobristKey[p]

TTEntry(k, d, s, nt, m, a) ==
    [hash_key |-> k, depth |-> d, score |-> s, node_type |-> nt, best_move |-> m, age |-> a]

\* Python's None where a TTEntry is expected
NoEntry == TTEntry(-1, 0, IntScore(0), "NONE", NoMove, 0)

\* TranspositionTable.__init__
EmptyTable == [table |-> <<>>, age |-> 0]

\* self.table[index] = entry on a dict
DictPut(f, k, x) == [i \in DOMAIN f \cup {k} |-> IF i = k THEN x ELSE f[i]]

\* Faulty variants of the table operations, which the properties below reject.
\* A store that never evicts an occupied slot:
StoreKeepIncumbent(t, p, depth, score, node_type, best_move) ==
    LET hash_key == HashPosition(p)
        index == hash_key % MaxEntries
        entry == TTEntry(hash_key, depth, score, node_type, best_move, t.age)
    IN  IF index \in DOMAIN t.table
        THEN t
        ELSE [t EXCEPT !.table = DictPut(t.table, index, entry)]

\* A store that replaces an entry of the same key only when strictly deeper:
StoreStrictlyDeeper(t, p, depth, score, node_type, best_move) ==
    LET hash_key == HashPosition(p)
        index == hash_key % MaxEntries
        entry == TTEntry(hash_key, depth, score, node_type, best_move, t.age)
    IN  IF index \in DOMAIN t.table
        THEN IF t.table[index].hash_key # hash_key \/ depth > t.table[index].depth
             THEN [t EXCEPT !.table = DictPut(t.table, index, entry)]
             ELSE t
        ELSE [t EXCEPT !.table = DictPut(t.table, index, entry)]

\* A probe that returns whatever the slot holds:
ProbeWithoutKeyCheck(t, p) ==
    LET hash_key == HashPosition(p)
        index == hash_key % MaxEntries
    IN  IF index \in DOMAIN t.table
        THEN t.table[index]
        ELSE NoEntry

\* TranspositionTable.store
Store(t, p, depth, score, node_type, best_move) ==
    LET hash_key == HashPosition(p)
        index == hash_key % MaxEntries
        entry == TTEntry(hash_key, depth, score, node_type, best_move, t.age)
    IN  IF index \in DOMAIN t.table
        THEN IF t.table[index].hash_key # hash_key \/ depth >= t.table[index].depth
             THEN [t EXCEPT !.table = DictPut(t.table, index, entry)]
             ELSE t
        ELSE [t EXCEPT !.table = DictPut(t.table, index, entry)]

\* TranspositionTable.probe
Probe(t, p) ==
    LET hash_key == HashPosition(p)
        index == hash_key % MaxEntries
    IN  IF index \in DOMAIN t.table /\ t.table[index].hash_key = hash_key
        THEN t.table[index]
        ELSE NoEntry

\* TranspositionTable.new_search
NewSearch(t) == [t EXCEPT !.age = t.age + 1]

\* A faulty variant that keeps the entries:
ClearAgeOnly(t) == [t EXCEPT !.age = 0]

\* TranspositionTable.clear
Clear(t) == [table |-> <<>>, age |-> 0]

-----------------------------------------------------------------------------
(* Move ordering *)

\* list.sort(key = score, reverse = True) on (score, move) pairs: stable
SortDescending(s) ==
    LET n == Len(s)
        rank(i) == 1 + Cardinality({j \in 1 .. n :
                        s[j][1] > s[i][1] \/ (s[j][1] = s[i][1] /\ j < i)})
    IN  [k \in 1 .. n |-> s[CHOOSE i \in 1 .. n : rank(i) = k][2]]

\* self.history.get(key, 0)
HistoryGet(h, m) == IF <<m.from, m.to>> \in DOMAIN h THEN h[<<m.from, m.to>>] ELSE 0

\* the score _order_moves gives one move
OrderScore(p, depth, hash_move, killers, h, m) ==
    IF m = hash_move THEN 10000000
    ELSE IF IsCapture(p, m)
         THEN IF Victim(p, m) # 0 /\ Attacker(p, m) # 0
              THEN 1000000 + Victim(p, m) * 100 - Attacker(p, m)
              ELSE 1000000
    ELSE IF depth < KillerSlots
         THEN IF m = killers[depth][1] THEN 900000
              ELSE IF m = killers[depth][2] THEN 800000
              ELSE 0
    ELSE IF m.promotion # 0 THEN 700000 + m.promotion
    ELSE HistoryGet(h, m)

\* ChessEngine._order_moves
OrderMoves(p, depth, hash_move, killers, h) ==
    LET moves == LegalMoves(p)
    IN  SortDescending([i \in 1 .. Len(moves) |->
            <<OrderScore(p, depth, hash_move, killers, h, moves[i]), moves[i]>>])

\* the score _get_captures gives one capture
CaptureScore(p, m) ==
    IF Victim(p, m) # 0 /\ Attacker(p, m) # 0
    THEN Victim(p, m) * 100 - Attacker(p, m)
    ELSE 0

\* ChessEngine._get_captures
GetCaptures(p) ==
    LET caps == SelectSeq(LegalMoves(p), LAMBDA m : IsCapture(p, m))
    IN  SortDescending([i \in 1 .. Len(caps) |-> <<CaptureScore(p, caps[i]), caps[i]>>])

\* A faulty variant that shifts without looking at the first slot:
StoreKillerUnchecked(killers, m, depth) ==
    IF depth >= KillerSlots THEN killers
    ELSE [killers EXCEPT ![depth] = <<m, killers[depth][1]>>]

\* ChessEngine._store_killer
StoreKiller(killers, m, depth) ==
    IF depth >= KillerSlots THEN killers
    ELSE IF m # killers[depth][1]
         THEN [killers EXCEPT ![depth] = <<m, killers[depth][1]>>]
         ELSE killers

\* the killer table of __init__ and reset
EmptyKillers == [d \in 0 .. KillerSlots - 1 |-> <<NoMove, NoMove>>]

\* A faulty variant of reset that leaves the killer table as it is:
KillersKept(k) == k

\* reset: self.killer_moves = [[None, None] for _ in range(64)]
KillersClear(k) == EmptyKillers

\* A faulty variant of reset that leaves the history table as it is:
HistoryKept(h) == h

\* reset: self.history.clear()
HistoryClear(h) == <<>>

-----------------------------------------------------------------------------
(* The family of games and the constructed engine *)

\* positions that may be terminal, with the terminal status each may have
TerminalChoices ==
    {<<"R", "stalemate">>, <<"B", "mate">>, <<"C", "draw">>, <<"MA", "mate">>}

\* the games of the family: no terminal position, one, or the two deep mates
TerminalSets ==
    {{}} \cup {{c} : c \in TerminalChoices}
         \cup {{<<"MB", "mate">>, <<"MX", "mate">>}}

StatusOf(S) ==
    [p \in Positions |->
        IF \E c \in S : c[1] = p THEN (CHOOSE c \in S : c[1] = p)[2] ELSE "normal"]

Statuses == {StatusOf(S) : S \in TerminalSets}

\* evaluate at the positions where the family does not vary it
BaseEval ==
    [R |-> 0, A |-> 0, B |-> 10, P |-> 0, C |-> -20, D |-> 15, X |-> 0,
     MA |-> -60, MB |-> 25, MX |-> -45, SB1 |-> 5, SW2 |-> -5, SB2 |-> 5, SW1 |-> -5,
     O |-> 0, T |-> 0, TD |-> 0, T1 |-> 10, T2 |-> -20, T3 |-> 10, T4 |-> -20, T5 |-> 10,
     T6 |-> -20, T7 |-> 10, T8 |-> -20, T9 |-> 10]

EvalVaried == {"A"}

EvalValues == {-30, 30}

Evals ==
    {[p \in Positions |-> IF p \in EvalVaried THEN g[p] ELSE BaseEval[p]] :
        g \in [EvalVaried -> EvalValues]}

\* the locals of find_best_move
IterLocals(d, bm, bs, sc, mv) ==
    [depth |-> d, best_move |-> bm, best_score |-> bs, score |-> sc, move |-> mv]

NoResult == [kind |-> "none", move |-> NoMove, score |-> IntScore(0)]

\* the last table operation: its arguments, the slot's entry before it (the
\* local "existing" of store) and what it returned
NoLog ==
    [op |-> "none", pos |-> "R", depth |-> 0, payload |-> 0, existing |-> NoEntry,
     result |-> NoEntry]

\* what the last reset found in the engine: nothing, before any reset
NothingWiped == [tt |-> FALSE, killers |-> FALSE, history |-> FALSE]

\* no evaluate call made yet by a direct caller
NoEvLog == [calls |-> 0, before |-> <<>>, value |-> IntScore(0), previous |-> IntScore(0)]

\* ChessBot.__init__ (lines 39-80): no game yet, no worker thread
\*   pc        where the coroutine run / play_game / calculate_best_move stands
\*   game      games started so far
\*   flight    worker threads running find_best_move
\*   searched  a search was started in the current game
\*   left      the last game start found entries of earlier searches in the engine
\*   stale     the first search of some game started on such entries
\*   shared    the coroutine touched the engine or the board of a running search
BotIdle ==
    [pc |-> "init", game |-> 0, flight |-> 0, searched |-> FALSE, left |-> FALSE,
     stale |-> FALSE, shared |-> FALSE]

\* no _order_moves call made yet by a direct caller on the engine as it is:
\* the arguments of the call and the list it returned
NoOrderLog == [calls |-> 0, depth |-> 0, hash_move |-> NoMove, moves |-> <<>>]

InitObs ==
    [clean |-> TRUE, fresh |-> TRUE, wiped |-> NothingWiped, call |-> "none", depth |-> 0,
     d1 |-> FALSE, abort_depth |-> 0, abort_at |-> "none", abort_nodes |-> 0,
     complete |-> NoResult, complete_depth |-> 0,
     root_scores |-> <<>>, first |-> NoResult]

\* ChessEngine.__init__ and a caller's board
EngineInit ==
    /\ board = <<"R">>
    /\ tt = EmptyTable
    /\ killer_moves = EmptyKillers
    /\ history = <<>>
    /\ nodes_searched = 0
    /\ expired = FALSE
    /\ pc = "idle"
    /\ iter = IterLocals(0, NoMove, IntScore(0), IntScore(0), NoMove)
    /\ stack = <<>>
    /\ ret = IntScore(0)
    /\ result = NoResult
    /\ searches = 0
    /\ obs = InitObs
    /\ tt_log = NoLog
    /\ ev_log = NoEvLog
    /\ bot = BotIdle
    /\ order_log = NoOrderLog

Init ==
    /\ status \in Statuses
    /\ ev \in Evals
    \* board.ply() at the root enters the search through the mate score alone
    /\ ply0 \in (IF \E p \in Positions : status[p] = "mate" THEN {0, MateWindow} ELSE {0})
    /\ use_quiescence \in BOOLEAN
    /\ EngineInit

game == <<status, ev, ply0, use_quiescence>>

-----------------------------------------------------------------------------
(* Frames *)

\* entry is the board the function was called with, alpha_in the alpha it
\* was called with
NewFrame(fn, depth, alpha, beta, entry) ==
    [fn |-> fn, at |-> "entry", depth |-> depth, alpha |-> alpha, beta |-> beta,
     entry |-> entry, alpha_in |-> alpha,
     best_score |-> IntScore(0 - MATE_SCORE), best_move |-> NoMove,
     original_alpha |-> alpha, moves |-> <<>>, i |-> 0]

SetTop(st, f) == [st EXCEPT ![Len(st)] = f]

\* the outcomes of one _time_up() call: the clock never runs backwards
TimeUp == IF expired THEN {TRUE} ELSE {FALSE, TRUE}

\* the frame _search_root starts with (lines 133-139)
RootFrame(depth) ==
    [NewFrame("root", depth, IntScore(0 - MATE_SCORE), IntScore(MATE_SCORE), board)
        EXCEPT !.at = "head",
               !.moves = OrderMoves(Top(board), depth, NoMove, killer_moves, history)]

-----------------------------------------------------------------------------
(* find_best_move *)

\* the observations reset at the start of a call
ObsAtCall(kind, d) ==
    [obs EXCEPT !.clean = FALSE, !.fresh = obs.clean, !.wiped = NothingWiped,
                !.call = kind, !.depth = d,
                !.d1 = FALSE, !.abort_depth = 0, !.abort_at = "none", !.abort_nodes = 0,
                !.complete = NoResult,
                !.complete_depth = 0,
                !.root_scores = <<>>]

\* the result of the first call made on a constructed or reset engine whose
\* deadline never expired
ObsAtReturn(o, res, exp) ==
    IF o.fresh /\ ~exp /\ o.first.kind = "none" /\ res.kind # "root"
    THEN [o EXCEPT !.first = res]
    ELSE o

\* a time check inside a root search that finds the deadline expired; the
\* periodic check comes after the node has been counted (line 173)
ObsAtCheck(o, up, where) ==
    IF up /\ ~expired /\ o.abort_depth = 0
    THEN [o EXCEPT !.abort_depth = stack[1].depth, !.abort_at = where,
                   !.abort_nodes = IF where = "periodic" THEN nodes_searched + 1
                                   ELSE nodes_searched]
    ELSE o

\* the calls a behaviour makes: at most MaxSearches, and none after a call
\* whose deadline expired
CallAllowed == searches < MaxSearches /\ (searches = 0 \/ ~expired)

\* return best_move (line 118, and line 80 with None)
FindReturn(bm, bs, exp, o) ==
    LET res == [kind |-> "return", move |-> bm, score |-> bs]
    IN  /\ pc' = "done"
        /\ result' = res
        /\ obs' = ObsAtReturn(o, res, exp)

\* lines 79-88
FindBestMove ==
    /\ pc \in {"idle", "done"}
    /\ CallAllowed
    /\ searches' = searches + 1
    /\ IF LegalMoves(Top(board)) = <<>>
       THEN /\ pc' = "done"
            /\ result' = [kind |-> "return", move |-> NoMove, score |-> IntScore(0)]
            /\ obs' = ObsAtReturn([ObsAtCall("find", 0) EXCEPT !.clean = obs.clean],
                                  [kind |-> "return", move |-> NoMove, score |-> IntScore(0)],
                                  expired)
            /\ UNCHANGED <<nodes_searched, expired, tt, iter>>
       ELSE /\ pc' = "loop"
            /\ nodes_searched' = 0
            /\ expired' = FALSE
            /\ tt' = NewSearch(tt)
            /\ iter' = IterLocals(1, NoMove, IntScore(0 - MATE_SCORE), IntScore(0), NoMove)
            /\ obs' = ObsAtCall("find", 0)
            /\ UNCHANGED result
    /\ UNCHANGED <<game, board, killer_moves, history, stack, ret, tt_log, ev_log, bot, order_log>>

\* lines 91-95: the head of the deepening loop
IterationStart ==
    /\ pc = "loop"
    /\ IF iter.depth > MaxDepth
       THEN /\ FindReturn(iter.best_move, iter.best_score, expired, obs)
            /\ UNCHANGED <<expired, stack>>
       ELSE \E up \in TimeUp :
            /\ expired' = up
            /\ IF up
               THEN /\ FindReturn(iter.best_move, iter.best_score, TRUE, obs)
                    /\ UNCHANGED stack
               ELSE /\ pc' = "search"
                    /\ stack' = <<RootFrame(iter.depth)>>
                    /\ obs' = [obs EXCEPT !.root_scores = <<>>]
                    /\ UNCHANGED result
    /\ UNCHANGED <<game, board, tt, killer_moves, history, nodes_searched, iter, ret,
                   searches, tt_log, ev_log, bot, order_log>>

\* a direct call of _search_root(board, d), as a test of the search makes it;
\* start_time is whatever the engine holds, so the deadline may have passed
SearchRootCall ==
    /\ pc \in {"idle", "done"}
    /\ CallAllowed
    /\ searches' = searches + 1
    /\ \E d \in 1 .. MaxDepth, e \in BOOLEAN :
        /\ expired' = e
        /\ stack' = <<RootFrame(d)>>
        /\ obs' = ObsAtCall("root", d)
    /\ pc' = "direct"
    /\ UNCHANGED <<game, board, tt, killer_moves, history, nodes_searched, iter, ret,
                   result, tt_log, ev_log, bot, order_log>>

\* return best_score, best_move (line 156) into find_best_move or the direct caller
RootReturn(f, exp, o0) ==
    LET res == [kind |-> "root", move |-> f.best_move, score |-> f.best_score]
        o == IF exp THEN o0
             ELSE [o0 EXCEPT !.complete = res, !.complete_depth = f.depth]
    IN  /\ stack' = <<>>
        /\ IF pc = "search"
           THEN /\ pc' = "after"
                /\ iter' = [iter EXCEPT !.score = f.best_score, !.move = f.best_move]
                /\ obs' = o
                /\ UNCHANGED result
           ELSE /\ pc' = "done"
                /\ result' = res
                /\ obs' = o
                /\ UNCHANGED iter

\* lines 141-154: a child's score comes back (at "wait"), then the loop head
SearchRootStep ==
    /\ pc \in {"search", "direct"}
    /\ Len(stack) = 1
    /\ stack[1].fn = "root"
    /\ LET f0 == stack[1]
           back == f0.at = "wait"
           b == IF back THEN Pop(board) ELSE board
           score == Neg(ret)
           f1 == IF back /\ score.v > f0.best_score.v
                 THEN [f0 EXCEPT !.best_score = score,
                                 !.best_move = f0.moves[f0.i],
                                 !.alpha = IF score.v > f0.alpha.v THEN score ELSE f0.alpha]
                 ELSE f0
           o == IF back
                THEN [obs EXCEPT !.root_scores =
                        Append(obs.root_scores, [move |-> f0.moves[f0.i], score |-> score])]
                ELSE obs
       IN  IF f1.i = Len(f1.moves)
           THEN /\ board' = b
                /\ RootReturn(f1, expired, o)
                /\ UNCHANGED expired
           ELSE \E up \in TimeUp :
                /\ expired' = up
                /\ IF up
                   THEN /\ board' = b
                        /\ RootReturn(f1, TRUE, ObsAtCheck(o, TRUE, "root"))
                   ELSE /\ board' = Push(b, f1.moves[f1.i + 1])
                        /\ stack' = <<[f1 EXCEPT !.at = "wait", !.i = f1.i + 1],
                                      NewFrame("ab", f1.depth - 1, Neg(f1.beta), Neg(f1.alpha),
                                               Push(b, f1.moves[f1.i + 1]))>>
                        /\ obs' = o
                        /\ UNCHANGED <<pc, iter, result>>
    /\ UNCHANGED <<game, tt, killer_moves, history, nodes_searched, ret, searches, tt_log, ev_log, bot, order_log>>

\* A faulty variant that keeps the result of an iteration the deadline cut short:
RecordedWithoutTimeCheck(move, up) == move # NoMove

\* line 97: the iteration's result is kept when it has a move and time is not up
Recorded(move, up) == move # NoMove /\ ~up

\* A faulty variant that takes only a mate at the root itself for a mate:
ForcedMateUnshifted(score) == Abs(score.v) >= MATE_SCORE

\* line 115: abs(score) > MATE_SCORE - 100
ForcedMate(score) == Abs(score.v) > MATE_SCORE - MateWindow

\* lines 97-116: the iteration's result is recorded, printed, and the loop goes on
IterationEnd ==
    /\ pc = "after"
    /\ \E up \in (IF iter.move # NoMove THEN TimeUp ELSE {expired}) :
        LET recorded == Recorded(iter.move, up)
            bm == IF recorded THEN iter.move ELSE iter.best_move
            bs == IF recorded THEN iter.score ELSE iter.best_score
            \* depth 1 ran to its end and time was not up at line 97
            o == [obs EXCEPT !.d1 = (obs.d1 \/ (iter.depth = 1 /\ ~up))]
        IN  /\ expired' = up
            /\ IF recorded /\ iter.score.f
               THEN \* f"score {score:+6d}" raises ValueError on a float
                    LET res == [kind |-> "raise", move |-> NoMove, score |-> iter.score]
                    IN  /\ pc' = "done"
                        /\ result' = res
                        /\ obs' = ObsAtReturn(o, res, up)
                        /\ iter' = [iter EXCEPT !.best_move = bm, !.best_score = bs]
               ELSE IF ForcedMate(iter.score)
                    THEN /\ FindReturn(bm, bs, up, o)
                         /\ iter' = [iter EXCEPT !.best_move = bm, !.best_score = bs]
                    ELSE /\ pc' = "loop"
                         /\ iter' = [iter EXCEPT !.best_move = bm, !.best_score = bs,
                                                 !.depth = iter.depth + 1]
                         /\ obs' = o
                         /\ UNCHANGED result
    /\ UNCHANGED <<game, board, tt, killer_moves, history, nodes_searched, stack, ret,
                   searches, tt_log, ev_log, bot, order_log>>

-----------------------------------------------------------------------------
(* _alpha_beta *)

\* a return of the innermost frame with the board as it is
Return(val) ==
    /\ ret' = val
    /\ stack' = Pop(stack)

\* lines 236-246: classify, store, return best_score
AbFinish(f, b) ==
    LET node_type == IF f.best_score.v <= f.original_alpha.v THEN "UPPER_BOUND"
                     ELSE IF f.best_score.v >= f.beta.v THEN "LOWER_BOUND"
                     ELSE "EXACT"
    IN  /\ tt' = Store(tt, Top(b), f.depth, f.best_score, node_type, f.best_move)
        /\ board' = b
        /\ Return(f.best_score)

\* lines 213-216: the next move of the loop is pushed and searched
AbLoop(f, b) ==
    IF f.i < Len(f.moves)
    THEN /\ board' = Push(b, f.moves[f.i + 1])
         /\ stack' = Append(SetTop(stack, [f EXCEPT !.at = "wait", !.i = f.i + 1]),
                            NewFrame("ab", f.depth - 1, Neg(f.beta), Neg(f.alpha),
                                     Push(b, f.moves[f.i + 1])))
         /\ UNCHANGED <<tt, ret>>
    ELSE AbFinish(f, b)

\* A faulty variant that lets an entry of any depth count:
TTHitAnyDepth(e, depth) == e # NoEntry

\* line 188: tt_entry is not None and tt_entry.depth >= depth
TTHit(e, depth) == e # NoEntry /\ e.depth >= depth

\* A faulty variant that consults the table before the terminal checks:
OutcomeProbeFirst(up, p, ply, hit, e, alpha1, beta1) ==
    IF up THEN [ends |-> TRUE, value |-> IntScore(0)]
    ELSE IF hit /\ e.node_type = "EXACT" THEN [ends |-> TRUE, value |-> e.score]
    ELSE IF hit /\ alpha1.v >= beta1.v THEN [ends |-> TRUE, value |-> e.score]
    ELSE IF IsCheckmate(p) THEN [ends |-> TRUE, value |-> IntScore(0 - MATE_SCORE + ply)]
    ELSE IF IsDraw(p) THEN [ends |-> TRUE, value |-> IntScore(0)]
    ELSE [ends |-> FALSE, value |-> IntScore(0)]

\* lines 176-198: the early returns of a node in the order the code tests
\* them: deadline, checkmate, draw, table hit
NodeOutcome(up, p, ply, hit, e, alpha1, beta1) ==
    IF up THEN [ends |-> TRUE, value |-> IntScore(0)]
    ELSE IF IsCheckmate(p) THEN [ends |-> TRUE, value |-> IntScore(0 - MATE_SCORE + ply)]
    ELSE IF IsDraw(p) THEN [ends |-> TRUE, value |-> IntScore(0)]
    ELSE IF hit /\ e.node_type = "EXACT" THEN [ends |-> TRUE, value |-> e.score]
    ELSE IF hit /\ alpha1.v >= beta1.v THEN [ends |-> TRUE, value |-> e.score]
    ELSE [ends |-> FALSE, value |-> IntScore(0)]

\* lines 173-216: from the entry to the first recursive call or an early return
AlphaBetaEnter ==
    /\ pc \in {"search", "direct"}
    /\ stack # <<>>
    /\ Top(stack).fn = "ab"
    /\ Top(stack).at = "entry"
    /\ nodes_searched' = nodes_searched + 1
    /\ LET f == Top(stack)
           p == Top(board)
           e == Probe(tt, p)
           hit == TTHit(e, f.depth)
           alpha1 == IF hit /\ e.node_type = "LOWER_BOUND" THEN PyMax(f.alpha, e.score)
                     ELSE f.alpha
           beta1 == IF hit /\ e.node_type = "UPPER_BOUND" THEN PyMin(f.beta, e.score)
                    ELSE f.beta
           hash_move == IF e # NoEntry THEN e.best_move ELSE NoMove
           f1 == [f EXCEPT !.alpha = alpha1, !.beta = beta1, !.original_alpha = alpha1,
                           !.moves = OrderMoves(p, f.depth, hash_move, killer_moves, history)]
       IN  \E up \in (IF nodes_searched' % CheckInterval = 0 THEN TimeUp ELSE {FALSE}) :
            /\ expired' = (expired \/ up)
            /\ obs' = ObsAtCheck(obs, up, "periodic")
            /\ IF NodeOutcome(up, p, Ply(board), hit, e, alpha1, beta1).ends
               THEN /\ Return(NodeOutcome(up, p, Ply(board), hit, e, alpha1, beta1).value)
                    /\ UNCHANGED <<board, tt>>
               ELSE IF f.depth <= 0
               THEN IF use_quiescence
                    THEN /\ stack' = SetTop(stack, NewFrame("q", QuiescenceDepth, alpha1, beta1,
                                                                f.entry))
                         /\ UNCHANGED <<board, tt, ret>>
                    ELSE /\ board' = BoardAfterEvaluate(board)
                         /\ Return(Evaluate(board))
                         /\ UNCHANGED tt
               ELSE AbLoop(f1, board)
    /\ UNCHANGED <<game, killer_moves, history, pc, iter, result, searches, tt_log, ev_log, bot, order_log>>

\* lines 216-234: a child's score comes back, then the loop goes on or ends
AlphaBetaResume ==
    /\ pc \in {"search", "direct"}
    /\ stack # <<>>
    /\ Top(stack).fn = "ab"
    /\ Top(stack).at = "wait"
    /\ LET f == Top(stack)
           b == Pop(board)
           p == Top(b)
           move == f.moves[f.i]
           score == Neg(ret)
           better == score.v > f.best_score.v
           raised == score.v > f.alpha.v
           f1 == [f EXCEPT !.best_score = IF better THEN score ELSE f.best_score,
                           !.best_move = IF better THEN move ELSE f.best_move,
                           !.alpha = IF raised THEN score ELSE f.alpha]
           cutoff == f1.alpha.v >= f1.beta.v
           key == <<move.from, move.to>>
       IN  /\ history' = IF raised /\ ~IsCapture(p, move)
                         THEN DictPut(history, key, HistoryGet(history, move) + f.depth * f.depth)
                         ELSE history
           /\ killer_moves' = IF cutoff /\ ~IsCapture(p, move)
                              THEN StoreKiller(killer_moves, move, f.depth)
                              ELSE killer_moves
           /\ IF cutoff THEN AbFinish(f1, b) ELSE AbLoop(f1, b)
    /\ UNCHANGED <<game, nodes_searched, expired, pc, iter, result, searches, obs, tt_log, ev_log, bot, order_log>>

-----------------------------------------------------------------------------
(* _quiescence *)

\* A faulty variant that hands the callee the caller's own depth:
QLoopSameDepth(f, b) ==
    IF f.i < Len(f.moves)
    THEN /\ board' = Push(b, f.moves[f.i + 1])
         /\ stack' = Append(SetTop(stack, [f EXCEPT !.at = "wait", !.i = f.i + 1]),
                            NewFrame("q", f.depth, Neg(f.beta), Neg(f.alpha),
                                     Push(b, f.moves[f.i + 1])))
         /\ UNCHANGED ret
    ELSE /\ board' = b
         /\ Return(f.alpha)

\* lines 281-298: the next capture is pushed and searched, or alpha is returned
QLoop(f, b) ==
    IF f.i < Len(f.moves)
    THEN /\ board' = Push(b, f.moves[f.i + 1])
         /\ stack' = Append(SetTop(stack, [f EXCEPT !.at = "wait", !.i = f.i + 1]),
                            NewFrame("q", f.depth - 1, Neg(f.beta), Neg(f.alpha),
                                     Push(b, f.moves[f.i + 1])))
         /\ UNCHANGED ret
    ELSE /\ board' = b
         /\ Return(f.alpha)

\* lines 266-286: from the entry to the first recursive call or an early return
QuiescenceEnter ==
    /\ pc \in {"search", "direct"}
    /\ stack # <<>>
    /\ Top(stack).fn = "q"
    /\ Top(stack).at = "entry"
    /\ nodes_searched' = nodes_searched + 1
    /\ LET f == Top(stack)
           stand_pat == Evaluate(board)
           b == BoardAfterEvaluate(board)
           f1 == [f EXCEPT !.alpha = IF stand_pat.v > f.alpha.v THEN stand_pat ELSE f.alpha,
                           !.moves = GetCaptures(Top(board))]
       IN  IF f.depth <= 0
           THEN board' = b /\ Return(stand_pat)
           ELSE IF stand_pat.v >= f.beta.v
           THEN board' = b /\ Return(f.beta)
           ELSE QLoop(f1, b)
    /\ UNCHANGED <<game, tt, killer_moves, history, expired, pc, iter, result, searches,
                   obs, tt_log, ev_log, bot, order_log>>

\* lines 286-298: a capture's score comes back
QuiescenceResume ==
    /\ pc \in {"search", "direct"}
    /\ stack # <<>>
    /\ Top(stack).fn = "q"
    /\ Top(stack).at = "wait"
    /\ LET f == Top(stack)
           b == Pop(board)
           score == Neg(ret)
           f1 == [f EXCEPT !.alpha = IF score.v > f.alpha.v THEN score ELSE f.alpha]
       IN  IF score.v >= f.beta.v
           THEN board' = b /\ Return(f.beta)
           ELSE QLoop(f1, b)
    /\ UNCHANGED <<game, tt, killer_moves, history, nodes_searched, expired, pc, iter,
                   result, searches, obs, tt_log, ev_log, bot, order_log>>

-----------------------------------------------------------------------------
(* reset *)

\* ChessEngine.reset (lines 392-396): what it does to the engine
ResetEngine ==
    /\ tt' = Clear(tt)
    /\ killer_moves' = KillersClear(killer_moves)
    /\ history' = HistoryClear(history)

\* a caller's reset() on an engine that is not searching
Reset ==
    /\ pc \in {"idle", "done"}
    /\ ResetEngine
    /\ obs' = [obs EXCEPT !.clean = TRUE,
                          !.wiped = [tt |-> tt.table # <<>>,
                                     killers |-> killer_moves # EmptyKillers,
                                     history |-> history # <<>>]]
    /\ UNCHANGED <<game, board, nodes_searched, expired, pc, iter, stack, ret, result,
                   searches, tt_log, ev_log, bot, order_log>>

Next ==
    \/ FindBestMove
    \/ IterationStart
    \/ SearchRootCall
    \/ SearchRootStep
    \/ IterationEnd
    \/ AlphaBetaEnter
    \/ AlphaBetaResume
    \/ QuiescenceEnter
    \/ QuiescenceResume
    \/ Reset

Spec == Init /\ [][Next]_vars

-----------------------------------------------------------------------------
(* Properties of the search, checked under Spec *)

RootMoves == LegalMoves("R")

IsRootMove(m) == \E i \in DOMAIN RootMoves : RootMoves[i] = m

Child(p, m) == Edges[EdgeOf(p, m)].dst

SetMax(S) == CHOOSE x \in S : \A y \in S : y <= x

\* a call of find_best_move has ended
FindDone == pc = "done" /\ obs.call = "find"

\* a direct call of _search_root has ended
RootDone == pc = "done" /\ obs.call = "root"

\* C1: on a position with a legal move, if the depth-1 iteration completes
\* before the deadline, find_best_move returns one of the position's legal
\* moves; None is returned only without a legal move or without a completed
\* depth 1.
C1_ReturnsLegalMove ==
    (FindDone /\ RootMoves # <<>> /\ obs.d1) =>
        (result.kind = "return" /\ IsRootMove(result.move))

\* C2: when the deadline expires during the iteration at depth d, at a root
\* check or at a periodic check of _alpha_beta, that iteration's score and move
\* are not recorded: find_best_move returns the best move of the last
\* iteration that ran to completion before the deadline.
C2_AbortedIterationDiscarded ==
    (FindDone /\ obs.abort_depth > 0) =>
        /\ result.kind = "return"
        /\ obs.complete_depth = obs.abort_depth - 1
        /\ result.move = obs.complete.move
        /\ obs.complete_depth > 0 => result.score = obs.complete.score

\* the deadline expired at a periodic check of a deeper iteration, and the move
\* of the iteration before it was returned
C2_Witness ==
    /\ FindDone
    /\ obs.abort_depth >= 2
    /\ obs.abort_at = "periodic"
    /\ result.kind = "return"
    /\ IsRootMove(result.move)

\* C3: every return path of _search_root, _alpha_beta, _quiescence and
\* _evaluate_mobility leaves the board's move stack as it was on entry: the
\* board is each active call's entry board plus the one move of every call
\* waiting above it, and the caller's position when no call is active.
C3_BoardRestored ==
    /\ \A i \in DOMAIN board : board[i] \in Positions
    /\ stack = <<>> => board = <<"R">>
    /\ \A i \in DOMAIN stack :
        LET f == stack[i]
            pushed == Cardinality({j \in i .. Len(stack) : stack[j].at = "wait"})
        IN  /\ Len(board) = Len(f.entry) + pushed
            /\ SubSeq(board, 1, Len(f.entry)) = f.entry

\* find_best_move has returned after a deadline abort inside a search that
\* stored entries, and the board is the caller's position
C3_Witness ==
    /\ FindDone
    /\ obs.abort_depth > 0
    /\ tt.table # <<>>
    /\ nodes_searched > CheckInterval
    /\ board = <<"R">>

RECURSIVE QuiescenceValue(_, _)
\* the quiescence value with no window: stand pat or the best capture
QuiescenceValue(p, depth) ==
    LET stand_pat == Evaluate(<<p>>).v
        caps == GetCaptures(p)
    IN  IF depth <= 0 THEN stand_pat
        ELSE SetMax({stand_pat} \cup
                    {0 - QuiescenceValue(Child(p, caps[i]), depth - 1) : i \in DOMAIN caps})

RECURSIVE NegamaxValue(_, _, _)
\* exhaustive negamax of the position ply plies below the root: every legal
\* move, the terminal scores and the leaf evaluation of _alpha_beta
NegamaxValue(p, ply, depth) ==
    LET moves == LegalMoves(p)
    IN  IF IsCheckmate(p) THEN 0 - MATE_SCORE + ply0 + ply
        ELSE IF IsDraw(p) THEN 0
        ELSE IF depth <= 0
             THEN IF use_quiescence THEN QuiescenceValue(p, QuiescenceDepth)
                  ELSE Evaluate(<<p>>).v
        ELSE SetMax({0 - NegamaxValue(Child(p, moves[i]), ply + 1, depth - 1) :
                        i \in DOMAIN moves})

\* exhaustive negamax at the root, with _search_root's initial best score
RootValue(depth) ==
    SetMax({0 - MATE_SCORE} \cup
           {0 - NegamaxValue(Child("R", RootMoves[i]), 1, depth - 1) : i \in DOMAIN RootMoves})

\* C4: for a fixed depth and position, with no deadline expiry, the score the
\* pruning root search returns equals the score of an exhaustive negamax of
\* that depth over the same tree with the same leaf evaluation.  Stated for a
\* search that starts from an empty table, empty killers and empty history.
C4_EqualsNegamax ==
    (RootDone /\ ~expired /\ obs.fresh) => result.score.v = RootValue(obs.depth)

\* some legal move of the root checkmates
MateInOne == \E i \in DOMAIN RootMoves : IsCheckmate(Child("R", RootMoves[i]))

\* C5: from a position with a mate in one, whatever its game ply count,
\* find_best_move's search returns a score of absolute value above
\* MATE_SCORE - 100 and the move returned is a mating move.
C5_MateInOneFound ==
    (FindDone /\ ~expired /\ MateInOne) =>
        /\ result.kind = "return"
        /\ Abs(result.score.v) > MATE_SCORE - MateWindow
        /\ IsRootMove(result.move)
        /\ IsCheckmate(Child("R", result.move))

RECURSIVE MateQuiescence(_, _, _)
\* forced mates in the quiescence part of the tree: the side to move may stand
\* pat (0) or capture; a mate ply plies below the root is MATE_SCORE - ply
MateQuiescence(p, ply, depth) ==
    LET caps == GetCaptures(p)
    IN  IF IsCheckmate(p) THEN ply - MATE_SCORE
        ELSE IF depth <= 0 THEN 0
        ELSE SetMax({0} \cup
                    {0 - MateQuiescence(Child(p, caps[i]), ply + 1, depth - 1) :
                        i \in DOMAIN caps})

RECURSIVE MateValue(_, _, _)
\* forced mates in the searched tree, by the ply of the mate below the root:
\* MATE_SCORE - ply when the side to move mates, ply - MATE_SCORE when it is
\* mated, 0 without a forced mate
MateValue(p, ply, depth) ==
    LET moves == LegalMoves(p)
    IN  IF IsCheckmate(p) THEN ply - MATE_SCORE
        ELSE IF IsDraw(p) THEN 0
        ELSE IF depth <= 0
             THEN IF use_quiescence THEN MateQuiescence(p, ply, QuiescenceDepth) ELSE 0
        ELSE SetMax({0 - MateValue(Child(p, moves[i]), ply + 1, depth - 1) :
                        i \in DOMAIN moves})

\* the forced mate a root move leads to in a search of the given depth
MoveMate(m, depth) == 0 - MateValue(Child("R", m), 1, depth - 1)

\* two root moves lead to forced mates of the same side with different lengths,
\* and every root move leads to a forced mate of that side
TwoMateLines(depth) ==
    /\ \E i, j \in DOMAIN RootMoves :
        MoveMate(RootMoves[i], depth) # MoveMate(RootMoves[j], depth)
    /\ \/ \A i \in DOMAIN RootMoves : MoveMate(RootMoves[i], depth) > 0
       \/ \A i \in DOMAIN RootMoves : MoveMate(RootMoves[i], depth) < 0

\* C6: of two forced-mate lines of different lengths in the searched tree, the
\* shorter has the strictly larger absolute score, so the search chooses the
\* fastest mate and the slowest way of being mated.
C6_PrefersShorterMate ==
    (RootDone /\ ~expired /\ obs.fresh /\ TwoMateLines(obs.depth)) =>
        /\ IsRootMove(result.move)
        /\ \A i \in DOMAIN RootMoves :
            MoveMate(result.move, obs.depth) >= MoveMate(RootMoves[i], obs.depth)
        /\ \A i, j \in DOMAIN obs.root_scores :
            LET a == obs.root_scores[i]
                b == obs.root_scores[j]
            IN  Abs(MoveMate(a.move, obs.depth)) > Abs(MoveMate(b.move, obs.depth))
                    => Abs(a.score.v) >= Abs(b.score.v)

\* C7: two runs of find_best_move on the same position with the same depth and
\* no deadline expiry, each on a freshly constructed or reset engine, return
\* the same move and score (or end the same way): a reset engine holds the
\* search state of a constructed one, and a run from it ends as the first did.
C7_FreshRunsAgree ==
    /\ (FindDone /\ ~expired /\ obs.fresh) => result = obs.first
    /\ (pc \in {"idle", "done"} /\ obs.clean) =>
            /\ tt = EmptyTable
            /\ killer_moves = EmptyKillers
            /\ history = <<>>

\* the second of two such runs has returned a move, the engine having been
\* reset in between
C7_Witness ==
    /\ FindDone
    /\ ~expired
    /\ obs.fresh
    /\ searches = MaxSearches
    /\ result.kind = "return"
    /\ IsRootMove(result.move)
    /\ result = obs.first

\* C11: after reset() the transposition table holds no entry, every killer
\* slot is empty and the history table is empty: the search state is that of
\* a freshly constructed engine.
C11_ResetRestoresFreshState ==
    obs.clean =>
        /\ tt.table = <<>>
        /\ tt = EmptyTable
        /\ \A d \in DOMAIN killer_moves : killer_moves[d] = <<NoMove, NoMove>>
        /\ killer_moves = EmptyKillers
        /\ DOMAIN history = {}

\* a reset has just emptied a table, a killer list and a history that
\* searches had filled
C11_Witness ==
    /\ obs.clean
    /\ obs.wiped.tt /\ obs.wiped.killers /\ obs.wiped.history
    /\ searches > 0
    /\ tt = EmptyTable /\ killer_moves = EmptyKillers /\ history = <<>>

\* C12 as stated: reset() leaves the history table as it is, so the weights
\* accumulated before a reset are still there after it.
C12_HistorySurvivesReset ==
    [][obs'.clean => history' = history]_vars

\* C12, amended: the history weights are kept, and only ever grow, from one
\* search to the next; reset() is the one step that removes them, and it
\* removes them all.
C12_HistoryKeptUntilReset ==
    [][IF obs'.clean
       THEN history' = <<>>
       ELSE \A k \in DOMAIN history :
                k \in DOMAIN history' /\ history'[k] >= history[k]]_vars

\* a reset has emptied a history table that held weights, and before it a
\* second search had started on the weights of the first
C12_Witness ==
    /\ obs.clean
    /\ obs.wiped.history
    /\ history = <<>>
    /\ searches = MaxSearches

-----------------------------------------------------------------------------
(* The transposition table on its own: any sequence of its operations *)

\* positions stored and probed; A and D share a slot, B has its own
TTPositions == {"A", "B", "D"}

\* the (score, node_type, best_move) arguments a store is given
TTPayloads ==
    <<[score |-> IntScore(10), node_type |-> "EXACT", best_move |-> NoMove],
      [score |-> FloatScore(-20), node_type |-> "LOWER_BOUND", best_move |-> Mv(1, 2, 0)]>>

SlotOf(p) == HashPosition(p) % MaxEntries

SlotEntry(t, p) == IF SlotOf(p) \in DOMAIN t.table THEN t.table[SlotOf(p)] ELSE NoEntry

TTInit ==
    /\ status = StatusOf({})
    /\ ev = BaseEval
    /\ ply0 = 0
    /\ use_quiescence = TRUE
    /\ EngineInit

TTIdle == UNCHANGED <<game, board, killer_moves, history, nodes_searched, expired, pc, iter,
                      stack, ret, result, searches, obs, ev_log, bot, order_log>>

TTStoreOp ==
    /\ \E p \in TTPositions, d \in 0 .. MaxStoreDepth, k \in DOMAIN TTPayloads :
        /\ tt' = Store(tt, p, d, TTPayloads[k].score, TTPayloads[k].node_type,
                       TTPayloads[k].best_move)
        /\ tt_log' = [op |-> "store", pos |-> p, depth |-> d, payload |-> k,
                      existing |-> SlotEntry(tt, p), result |-> NoEntry]
    /\ TTIdle

TTProbeOp ==
    /\ \E p \in TTPositions :
        tt_log' = [op |-> "probe", pos |-> p, depth |-> 0, payload |-> 0,
                   existing |-> SlotEntry(tt, p), result |-> Probe(tt, p)]
    /\ tt' = tt
    /\ TTIdle

TTNewSearchOp ==
    /\ tt.age < MaxAge
    /\ tt' = NewSearch(tt)
    /\ tt_log' = [NoLog EXCEPT !.op = "new_search"]
    /\ TTIdle

TTClearOp ==
    /\ tt' = Clear(tt)
    /\ tt_log' = [NoLog EXCEPT !.op = "clear"]
    /\ TTIdle

TTNext ==
    \/ TTStoreOp
    \/ TTProbeOp
    \/ TTNewSearchOp
    \/ TTClearOp

TTSpec == TTInit /\ [][TTNext]_vars

-----------------------------------------------------------------------------
(* Properties of the transposition table, checked under TTSpec *)

\* C8: after any sequence of store, probe, new_search and clear, probe(p)
\* returns None or an entry whose hash_key is hash(p); an entry of another
\* position that occupies p's slot is never returned for p.
C8_ProbeMatchesKey ==
    /\ \A p \in Positions :
        LET e == Probe(tt, p)
        IN  /\ e = NoEntry \/ e.hash_key = HashPosition(p)
            /\ (SlotEntry(tt, p) # NoEntry /\ SlotEntry(tt, p).hash_key # HashPosition(p))
                    => e = NoEntry
    /\ tt_log.op = "probe" =>
        /\ tt_log.result = NoEntry \/ tt_log.result.hash_key = HashPosition(tt_log.pos)
        /\ (tt_log.existing # NoEntry /\ tt_log.existing.hash_key # HashPosition(tt_log.pos))
                => tt_log.result = NoEntry

\* a probe of a position whose slot holds another position's entry returned None
C8_Witness ==
    /\ tt_log.op = "probe"
    /\ tt_log.existing # NoEntry
    /\ tt_log.existing.hash_key # HashPosition(tt_log.pos)
    /\ tt_log.result = NoEntry

\* C9: immediately after store(p, d, ...), probe(p) returns an entry, not None,
\* whose depth is at least d, whatever the table held before.
C9_StoreThenProbe ==
    tt_log.op = "store" =>
        /\ Probe(tt, tt_log.pos) # NoEntry
        /\ Probe(tt, tt_log.pos).depth >= tt_log.depth

\* a store onto a slot held by another position, and a store of a shallower
\* depth than the entry of the same position: both leave probe(p) as claimed
C9_Witness ==
    /\ tt_log.op = "store"
    /\ tt_log.existing # NoEntry
    /\ tt_log.existing.hash_key # HashPosition(tt_log.pos)
    /\ tt_log.existing.depth > tt_log.depth
    /\ Probe(tt, tt_log.pos).depth = tt_log.depth

\* the entry store(p, d, payload k) writes into a table of the given age
StoredEntry(p, d, k, age) ==
    TTEntry(HashPosition(p), d, TTPayloads[k].score, TTPayloads[k].node_type,
            TTPayloads[k].best_move, age)

\* C10: a store overwrites the slot hash(p) % capacity when it is empty, holds
\* another hash_key, or holds the same hash_key with depth <= d; it leaves the
\* slot unchanged when it holds the same hash_key with depth > d; and it
\* modifies no other slot.
C10_StoreReplacement ==
    [][tt_log'.op = "store" =>
        LET p == tt_log'.pos
            d == tt_log'.depth
            old == SlotEntry(tt, p)
        IN  /\ DOMAIN tt'.table = DOMAIN tt.table \cup {SlotOf(p)}
            /\ \A j \in DOMAIN tt.table \ {SlotOf(p)} : tt'.table[j] = tt.table[j]
            /\ tt'.age = tt.age
            /\ IF old = NoEntry \/ old.hash_key # HashPosition(p) \/ old.depth <= d
               THEN tt'.table[SlotOf(p)] = StoredEntry(p, d, tt_log'.payload, tt.age)
               ELSE tt'.table[SlotOf(p)] = old
    ]_vars

\* a store of a shallower depth than the entry of the same position, retained
\* next to an occupied other slot
C10_Witness ==
    /\ tt_log.op = "store"
    /\ tt_log.existing # NoEntry
    /\ tt_log.existing.hash_key = HashPosition(tt_log.pos)
    /\ tt_log.existing.depth > tt_log.depth
    /\ SlotEntry(tt, tt_log.pos) = tt_log.existing
    /\ \E q \in TTPositions : SlotOf(q) # SlotOf(tt_log.pos) /\ SlotEntry(tt, q) # NoEntry

-----------------------------------------------------------------------------
(* The evaluator on its own: a caller walks a game and evaluates positions *)

\* a game of the family, the board at its start
EvalInit ==
    /\ status \in Statuses
    /\ ev \in Evals
    /\ ply0 = 0
    /\ use_quiescence = TRUE
    /\ EngineInit

EvalIdle == UNCHANGED <<game, tt, killer_moves, history, nodes_searched, expired, pc, iter,
                        stack, ret, result, searches, obs, tt_log, bot, order_log>>

\* the caller plays a legal move on its board (board.push)
EvalPushOp ==
    /\ ~IsCheckmate(Top(board))
    /\ Len(board) <= MaxDepth
    /\ \E i \in 1 .. Len(LegalMoves(Top(board))) :
        board' = Push(board, LegalMoves(Top(board))[i])
    /\ ev_log' = NoEvLog
    /\ EvalIdle

\* the caller takes its last move back (board.pop)
EvalPopOp ==
    /\ Len(board) > 1
    /\ board' = Pop(board)
    /\ ev_log' = NoEvLog
    /\ EvalIdle

\* Evaluator.evaluate(board)
EvaluateOp ==
    /\ ev_log.calls < MaxEvalCalls
    /\ ev_log' = [calls |-> ev_log.calls + 1, before |-> board, value |-> Evaluate(board),
                  previous |-> ev_log.value]
    /\ board' = BoardAfterEvaluate(board)
    /\ EvalIdle

EvalNext ==
    \/ EvalPushOp
    \/ EvalPopOp
    \/ EvaluateOp

EvalSpec == EvalInit /\ [][EvalNext]_vars

\* C13: evaluate called twice in a row on the same position returns the same
\* value both times, and after each call the board (position, side to move,
\* move stack) is what it was before the call, the null move of the mobility
\* term having been popped again.
C13_EvaluateRepeatable ==
    /\ ev_log.calls >= 1 => board = ev_log.before
    /\ ev_log.calls >= 2 => ev_log.value = ev_log.previous

\* a position with moves played on the board, not a terminal one, has been
\* evaluated twice, so the mobility term ran twice
C13_Witness ==
    /\ ev_log.calls = 2
    /\ Len(board) > 1
    /\ ~IsCheckmate(Top(board)) /\ ~IsDraw(Top(board))
    /\ ev_log.value = FloatScore(ev[Top(board)])
    /\ board = ev_log.before

\* C14 as stated: the value evaluate returns is an integer number of
\* centipawns at every position.
C14_EvaluateReturnsInteger ==
    ev_log.calls >= 1 => ~ev_log.value.f

-----------------------------------------------------------------------------
(* The orchestrator (src/main.py): one coroutine, run -> play_game ->       *)
(* calculate_best_move, and the worker thread of asyncio.to_thread.  The    *)
(* browser side is a source of events: a game starts, the board on screen   *)
(* changes, the game ends.  A search is the sequence of writes it makes to  *)
(* the engine's tables.                                                     *)

\* A faulty game start that does not call engine.reset():
BotResetSkipped == UNCHANGED <<tt, killer_moves, history>>

\* run, line 135: self.engine.reset()
BotResetEngine == ResetEngine

\* A faulty calculate_best_move that does not await the worker thread:
PcWithoutAwait == "play"

\* calculate_best_move, lines 307-310: the coroutine is suspended in
\* await asyncio.to_thread(...) until the thread has returned
PcAfterToThread == "await_search"

\* the engine holds something a search wrote
EngineDirty == tt.table # <<>> \/ killer_moves # EmptyKillers \/ history # <<>>

\* the positions the board reader can show
ScreenPositions == {"R", "A", "B"}

BotInit ==
    /\ status = StatusOf({})
    /\ ev = BaseEval
    /\ ply0 = 0
    /\ use_quiescence = TRUE
    /\ EngineInit

BotFrame == UNCHANGED <<game, expired, pc, iter, stack, ret, result, searches, obs,
                        tt_log, ev_log, order_log>>

\* run, lines 123-124: initialize() has opened the browser
BotInitialize ==
    /\ bot.pc = "init"
    /\ bot' = [bot EXCEPT !.pc = "wait_game"]
    /\ UNCHANGED <<board, tt, killer_moves, history, nodes_searched>>
    /\ BotFrame

\* run, lines 126-138: a game start is detected, the color is read, the
\* game state and the engine are reset, and play_game is entered
BotNewGame ==
    /\ bot.pc = "wait_game"
    /\ bot.game < MaxGames
    /\ board' = <<"R">>
    /\ BotResetEngine
    /\ bot' = [bot EXCEPT !.pc = "play", !.game = bot.game + 1, !.searched = FALSE,
                          !.left = EngineDirty,
                          !.shared = bot.shared \/ bot.flight > 0]
    /\ UNCHANGED nodes_searched
    /\ BotFrame

\* play_game, lines 164-208: one round of the polling loop that does not
\* reach calculate_best_move: the game is over, or the board on screen has
\* changed and _sync_board copies it but it is not our turn
BotPoll ==
    /\ bot.pc = "play"
    /\ \/ /\ bot' = [bot EXCEPT !.pc = "wait_game"]
          /\ board' = board
       \/ /\ \E q \in ScreenPositions : board' = <<q>>
          /\ board' # board
          /\ bot' = [bot EXCEPT !.shared = bot.shared \/ bot.flight > 0]
    /\ UNCHANGED <<tt, killer_moves, history, nodes_searched>>
    /\ BotFrame

\* calculate_best_move, lines 285-302, and play_game, lines 211-252: the
\* opening book or the tablebase supplies the move and it is played.  The
\* board holds one move of ours at most: the opponent's reply makes
\* _sync_board replace it by a copy of the board on screen.
BotBookMove ==
    /\ bot.pc = "play"
    /\ Len(board) = 1
    /\ \E i \in 1 .. Len(LegalMoves(Top(board))) :
        board' = Push(board, LegalMoves(Top(board))[i])
    /\ bot' = [bot EXCEPT !.shared = bot.shared \/ bot.flight > 0]
    /\ UNCHANGED <<tt, killer_moves, history, nodes_searched>>
    /\ BotFrame

\* calculate_best_move, lines 285-310: the turn is set on internal_board and
\* find_best_move is handed to a worker thread, which starts with lines
\* 82-88 of find_best_move
BotSearch ==
    /\ bot.pc = "play"
    /\ tt.age < MaxAge
    /\ bot' = [bot EXCEPT !.pc = PcAfterToThread, !.flight = bot.flight + 1,
                          !.searched = TRUE,
                          !.stale = bot.stale \/ (~bot.searched /\ EngineDirty),
                          !.shared = bot.shared \/ bot.flight > 0]
    /\ nodes_searched' = 0
    /\ tt' = NewSearch(tt)
    /\ UNCHANGED <<board, killer_moves, history>>
    /\ BotFrame

\* the worker thread: a node of the search stores an entry, a killer move or
\* a history weight
ThreadStep ==
    /\ bot.flight > 0
    /\ nodes_searched < MaxThreadSteps
    /\ nodes_searched' = nodes_searched + 1
    /\ \/ /\ \E p \in TTPositions :
                tt' = Store(tt, p, 1, IntScore(0), "EXACT", NoMove)
          /\ UNCHANGED <<killer_moves, history>>
       \/ /\ killer_moves' = StoreKiller(killer_moves, Mv(1, 2, 0), 1)
          /\ history' = DictPut(history, <<1, 2>>, HistoryGet(history, Mv(1, 2, 0)) + 1)
          /\ UNCHANGED tt
    /\ UNCHANGED <<board, bot>>
    /\ BotFrame

\* find_best_move ends in the worker thread.  A coroutine still waiting for
\* it resumes: with a move, which play_game plays and pushes on
\* internal_board (lines 211-240), with None (lines 213-216), or with the
\* exception the call raised, which ends run (lines 146-149).
ThreadReturn ==
    /\ bot.flight > 0
    /\ IF bot.pc # "await_search"
       THEN /\ bot' = [bot EXCEPT !.flight = bot.flight - 1]
            /\ board' = board
       ELSE \/ /\ bot' = [bot EXCEPT !.flight = bot.flight - 1, !.pc = "play"]
               /\ \/ board' = board
                  \/ /\ Len(board) = 1
                     /\ \E i \in 1 .. Len(LegalMoves(Top(board))) :
                            board' = Push(board, LegalMoves(Top(board))[i])
            \/ /\ bot' = [bot EXCEPT !.flight = bot.flight - 1, !.pc = "stopped"]
               /\ board' = board
    /\ UNCHANGED <<tt, killer_moves, history, nodes_searched>>
    /\ BotFrame

\* run, lines 143-151: KeyboardInterrupt or a cancellation reaches the
\* coroutine at one of its awaits; cleanup closes the tablebase and the
\* browser.  A worker thread that is running is not stopped.
BotCancel ==
    /\ bot.pc \in {"wait_game", "play", "await_search"}
    /\ bot' = [bot EXCEPT !.pc = "stopped"]
    /\ UNCHANGED <<board, tt, killer_moves, history, nodes_searched>>
    /\ BotFrame

BotNext ==
    \/ BotInitialize
    \/ BotNewGame
    \/ BotPoll
    \/ BotBookMove
    \/ BotSearch
    \/ ThreadStep
    \/ ThreadReturn
    \/ BotCancel

BotSpec == BotInit /\ [][BotNext]_vars

\* C15: between the detection of a new game and the first find_best_move of
\* that game engine.reset() runs: a game in which no search has started yet
\* has an engine with an empty table, empty killer slots and no history, and
\* no first search of a game starts on what an earlier game left.
C15_ResetBeforeFirstSearch ==
    /\ ~bot.stale
    /\ (bot.pc = "play" /\ ~bot.searched) =>
            /\ tt = EmptyTable
            /\ killer_moves = EmptyKillers
            /\ history = <<>>

\* the first search of the second game is running; the game start had found
\* the entries of the first game's searches in the engine
C15_Witness ==
    /\ bot.game = 2
    /\ bot.left
    /\ bot.pc = "await_search"
    /\ bot.flight = 1
    /\ nodes_searched = 0
    /\ tt.table = <<>>
    /\ ~bot.stale

\* C16: at most one find_best_move is in flight at any time, and while it
\* runs the coroutine neither calls the engine nor touches internal_board.
C16_SingleSearchInFlight ==
    /\ bot.flight <= 1
    /\ ~bot.shared
    /\ bot.flight = 1 => bot.pc \in {"await_search", "stopped"}

\* a search is writing the engine's tables in its thread while the coroutine
\* waits for it
C16_Witness ==
    /\ bot.flight = 1
    /\ bot.pc = "await_search"
    /\ nodes_searched > 0
    /\ EngineDirty
    /\ ~bot.shared

-----------------------------------------------------------------------------
(* One node on its own: _alpha_beta called at a position of a game with any *)
(* depth and window, the table holding nothing or one entry for that        *)
(* position's hash, as one store call of any earlier search leaves it.      *)

NodeStatuses ==
    {StatusOf(S) : S \in {{}, {<<"B", "mate">>}, {<<"B", "stalemate">>},
                          {<<"C", "draw">>}, {<<"MA", "mate">>}}}

\* the boards the node is called with
NodeBoards == {<<"R", "A">>, <<"R", "B">>, <<"R", "B", "C">>, <<"R", "A", "MA">>}

\* the (alpha, beta) windows of the call
NodeWindows ==
    {<<IntScore(0 - MATE_SCORE), IntScore(MATE_SCORE)>>, <<IntScore(-10), IntScore(30)>>}

\* the scores an entry holds: below, inside and above the narrow window
NodeScores == {IntScore(-20), FloatScore(20), IntScore(40)}

NodeTypes == {"EXACT", "LOWER_BOUND", "UPPER_BOUND"}

\* the best move an entry for p holds: the last legal move, None without one
NodeHashMove(p) ==
    IF LegalMoves(p) = <<>> THEN NoMove ELSE LegalMoves(p)[Len(LegalMoves(p))]

NodeTables(p) ==
    {EmptyTable} \cup
    {Store(EmptyTable, p, d, sc, nt, NodeHashMove(p)) :
        d \in 0 .. MaxStoreDepth, sc \in NodeScores, nt \in NodeTypes}

NodeInit ==
    /\ status \in NodeStatuses
    /\ ev = BaseEval
    /\ ply0 = 0
    /\ use_quiescence \in BOOLEAN
    /\ board \in NodeBoards
    /\ tt \in NodeTables(Top(board))
    /\ \E d \in 0 .. MaxStoreDepth, w \in NodeWindows :
        stack = <<NewFrame("ab", d, w[1], w[2], board)>>
    /\ killer_moves = EmptyKillers
    /\ history = <<>>
    /\ nodes_searched \in {0, CheckInterval - 1}
    /\ expired = FALSE
    /\ pc = "direct"
    /\ iter = IterLocals(0, NoMove, IntScore(0), IntScore(0), NoMove)
    /\ ret = IntScore(0)
    /\ result = NoResult
    /\ searches = 1
    /\ obs = [InitObs EXCEPT !.clean = FALSE, !.fresh = FALSE, !.call = "node"]
    /\ tt_log = NoLog
    /\ ev_log = NoEvLog
    /\ bot = BotIdle
    /\ order_log = NoOrderLog

NodeNext ==
    \/ AlphaBetaEnter
    \/ AlphaBetaResume
    \/ QuiescenceEnter
    \/ QuiescenceResume

NodeSpec == NodeInit /\ [][NodeNext]_vars

-----------------------------------------------------------------------------
(* Properties of one _alpha_beta node *)

\* the next step is a node's entry (lines 173-216)
AtNodeEntry == stack # <<>> /\ Top(stack).fn = "ab" /\ Top(stack).at = "entry"

\* the step found the deadline expired at the periodic check of line 176
NodeAborted == nodes_searched' % CheckInterval = 0 /\ expired'

\* C18: the terminal checks run before the transposition probe: a node that
\* is checkmate, stalemate, insufficient material or a claimable draw, and
\* that the deadline check lets through, returns the terminal score
\* (-MATE_SCORE + ply, or 0) whatever the table holds for its hash, and
\* leaves table and board alone.
C18_TerminalBeforeProbe ==
    [][(/\ AtNodeEntry
        /\ ~NodeAborted
        /\ IsCheckmate(Top(board)) \/ IsDraw(Top(board)))
            => /\ stack' = Pop(stack)
               /\ ret' = IF IsCheckmate(Top(board))
                         THEN IntScore(0 - MATE_SCORE + Ply(board))
                         ELSE IntScore(0)
               /\ tt' = tt
               /\ board' = board]_vars

\* a checkmated node has returned its mate score although the table held an
\* EXACT entry of the largest depth, with another score, for its hash
C18_Witness ==
    /\ stack = <<>>
    /\ ~expired
    /\ IsCheckmate(Top(board))
    /\ Probe(tt, Top(board)) # NoEntry
    /\ Probe(tt, Top(board)).node_type = "EXACT"
    /\ Probe(tt, Top(board)).depth = MaxStoreDepth
    /\ ret = IntScore(0 - MATE_SCORE + Ply(board))
    /\ Probe(tt, Top(board)).score # ret

\* C19: at a node that is not terminal and not aborted, a probed entry of
\* depth >= the remaining depth is used: EXACT returns the stored score,
\* LOWER raises alpha to max(alpha, score), UPPER lowers beta to
\* min(beta, score), and the stored score is returned if alpha >= beta then.
\* No entry, or an entry of smaller depth, leaves alpha and beta as they
\* were and causes no return; the entry's move is searched first.
C19_ProbeUse ==
    [][LET f == Top(stack)
           p == Top(board)
           e == Probe(tt, p)
           deep == e # NoEntry /\ e.depth >= f.depth
           a1 == IF deep /\ e.node_type = "LOWER_BOUND" /\ e.score.v > f.alpha.v
                 THEN e.score ELSE f.alpha
           b1 == IF deep /\ e.node_type = "UPPER_BOUND" /\ e.score.v < f.beta.v
                 THEN e.score ELSE f.beta
           returns(v) == stack' = Pop(stack) /\ ret' = v /\ tt' = tt /\ board' = board
           goes_on ==
                IF f.depth <= 0
                THEN IF use_quiescence
                     THEN /\ Len(stack') = Len(stack)
                          /\ Top(stack').fn = "q"
                          /\ Top(stack').alpha = a1
                          /\ Top(stack').beta = b1
                     ELSE stack' = Pop(stack) /\ ret' = Evaluate(board)
                ELSE /\ Len(stack') = Len(stack) + 1
                     /\ stack'[Len(stack)].alpha = a1
                     /\ stack'[Len(stack)].beta = b1
                     /\ Top(stack').alpha = Neg(b1)
                     /\ Top(stack').beta = Neg(a1)
                     /\ (e # NoEntry /\ \E i \in DOMAIN LegalMoves(p) :
                                            LegalMoves(p)[i] = e.best_move)
                            => stack'[Len(stack)].moves[1] = e.best_move
       IN  (AtNodeEntry /\ ~NodeAborted /\ ~IsCheckmate(p) /\ ~IsDraw(p))
            => IF deep /\ e.node_type = "EXACT" THEN returns(e.score)
               ELSE IF deep /\ a1.v >= b1.v THEN returns(e.score)
               ELSE goes_on]_vars

\* a LOWER entry of sufficient depth has raised the alpha of a node above
\* the alpha it was called with, and the node went on into its move loop
C19_Witness ==
    /\ Len(stack) = 2
    /\ stack[1].fn = "ab" /\ stack[1].at = "wait"
    /\ stack[1].original_alpha.v > stack[1].alpha_in.v
    /\ LET e == Probe(tt, Top(stack[1].entry))
       IN  /\ e # NoEntry
           /\ e.node_type = "LOWER_BOUND"
           /\ e.depth >= stack[1].depth
           /\ stack[1].alpha = e.score

\* the step ends a node's move loop: bound classification, store, return
\* (lines 236-246)
AtNodeFinish ==
    /\ stack # <<>>
    /\ Top(stack).fn = "ab"
    /\ Top(stack).at = "wait"
    /\ Len(stack') = Len(stack) - 1

\* C17 as stated: a node at which the side to move is checkmated returns
\* -MATE_SCORE + k, k being the plies between the position passed to
\* find_best_move and the node, whatever the game ply of that position.
C17_MateScoreCountsFromRoot ==
    [][(AtNodeEntry /\ ~NodeAborted /\ IsCheckmate(Top(board)))
            => ret' = IntScore(0 - MATE_SCORE + (Len(board) - 1))]_vars

\* C20 as stated: the entry a node stores after its move loop is UPPER
\* exactly when the best score did not exceed the alpha the node was called
\* with, LOWER exactly when it reached beta, EXACT otherwise.  Checked for
\* searches whose deadline has not expired.
C20_BoundFromCalledAlpha ==
    [][(AtNodeFinish /\ ~expired') =>
        LET f == Top(stack)
            best == ret'
            expected == IF best.v <= f.alpha_in.v THEN "UPPER_BOUND"
                        ELSE IF best.v >= f.beta.v THEN "LOWER_BOUND"
                        ELSE "EXACT"
        IN  tt' # tt => Probe(tt', Top(board')).node_type = expected]_vars

-----------------------------------------------------------------------------
(* The periodic deadline check *)

\* the next step is the entry of a counted node (_alpha_beta or _quiescence)
\* that brings the node counter to a multiple of the check interval
AtCheckPoint ==
    /\ pc \in {"search", "direct"}
    /\ stack # <<>>
    /\ Top(stack).fn \in {"ab", "q"}
    /\ Top(stack).at = "entry"
    /\ (nodes_searched + 1) % CheckInterval = 0

\* the node consults the clock, finds the deadline expired and returns 0
NodeAbortsOnExpiry ==
    /\ Next
    /\ expired'
    /\ stack' = Pop(stack)
    /\ ret' = IntScore(0)

\* C21 as stated: whenever a counted node, of _alpha_beta or of _quiescence,
\* brings the node counter to a multiple of the check interval, the deadline
\* is consulted there, and if it has expired the node returns 0.
C21_DeadlineCheckedAtInterval ==
    (AtCheckPoint /\ ~expired) => ENABLED NodeAbortsOnExpiry

-----------------------------------------------------------------------------
(* One quiescence call on its own: _quiescence called at a position of a    *)
(* game with any window and any remaining depth from 0 to quiescence_depth. *)

\* the boards the call is made on: "A", "B" and "X" have a capture
QuiescenceBoards == {<<"R", "A">>, <<"R", "B">>, <<"R", "A", "P">>, <<"R", "A", "P", "X">>}

\* the (alpha, beta) windows of the call: the full window, one around the
\* evaluations, one below them and one above them
QuiescenceWindows ==
    {<<IntScore(0 - MATE_SCORE), IntScore(MATE_SCORE)>>, <<IntScore(-10), IntScore(30)>>,
     <<IntScore(-80), IntScore(-40)>>, <<IntScore(40), IntScore(80)>>}

QuiescenceInit ==
    /\ status \in NodeStatuses
    /\ ev \in Evals
    /\ ply0 = 0
    /\ use_quiescence = TRUE
    /\ board \in QuiescenceBoards
    /\ \E d \in 0 .. QuiescenceDepth, w \in QuiescenceWindows :
        stack = <<NewFrame("q", d, w[1], w[2], board)>>
    /\ tt = EmptyTable
    /\ killer_moves = EmptyKillers
    /\ history = <<>>
    /\ nodes_searched = 0
    /\ expired = FALSE
    /\ pc = "direct"
    /\ iter = IterLocals(0, NoMove, IntScore(0), IntScore(0), NoMove)
    /\ ret = IntScore(0)
    /\ result = NoResult
    /\ searches = 1
    /\ obs = [InitObs EXCEPT !.clean = FALSE, !.fresh = FALSE, !.call = "quiescence"]
    /\ tt_log = NoLog
    /\ ev_log = NoEvLog
    /\ bot = BotIdle
    /\ order_log = NoOrderLog

QuiescenceNext ==
    \/ QuiescenceEnter
    \/ QuiescenceResume

QuiescenceSpec == QuiescenceInit /\ [][QuiescenceNext]_vars

\* the next step is the entry of a _quiescence call (lines 266-286)
AtQuiescenceEntry == stack # <<>> /\ Top(stack).fn = "q" /\ Top(stack).at = "entry"

\* the step returns from a _quiescence call
AtQuiescenceReturn == stack # <<>> /\ Top(stack).fn = "q" /\ stack' = Pop(stack)

\* C22 as stated: a _quiescence call whose stand-pat evaluation is >= beta
\* returns beta at once, whatever its remaining depth, 0 included; and the
\* value any _quiescence call returns lies between the alpha and the beta it
\* was called with.
C22_QuiescenceWithinWindow ==
    [][/\ (AtQuiescenceEntry /\ Evaluate(board).v >= Top(stack).beta.v)
            => (stack' = Pop(stack) /\ ret' = Top(stack).beta)
       /\ AtQuiescenceReturn
            => (Top(stack).alpha_in.v <= ret'.v /\ ret'.v <= Top(stack).beta.v)]_vars

-----------------------------------------------------------------------------
(* Move ordering on its own: the killer and history tables are filled as    *)
(* the searches of a game fill them, and _order_moves is called on the      *)
(* position "O" with any depth and any hash move.                           *)

\* the position _order_moves is called on
OrderPosition == Top(board)

\* moves a beta cutoff has stored as killers: a quiet move of "O" and a
\* quiet move of another position
OrderKillers == {Mv(21, 22, 0), Mv(1, 2, 0)}

\* quiet moves of "O" that raised alpha in earlier searches
OrderCredited == {Mv(23, 24, 0), Mv(25, 26, 0)}

\* the hash moves a table entry for "O" holds: None, a capture, a quiet move
OrderHashMoves == {NoMove, Mv(21, 30, 0), Mv(23, 24, 0)}

OrderInit ==
    /\ status = StatusOf({})
    /\ ev = BaseEval
    /\ ply0 = 0
    /\ use_quiescence = TRUE
    /\ board = <<"O">>
    /\ tt = EmptyTable
    /\ killer_moves = EmptyKillers
    /\ history = <<>>
    /\ nodes_searched = 0
    /\ expired = FALSE
    /\ pc = "idle"
    /\ iter = IterLocals(0, NoMove, IntScore(0), IntScore(0), NoMove)
    /\ stack = <<>>
    /\ ret = IntScore(0)
    /\ result = NoResult
    /\ searches = 0
    /\ obs = InitObs
    /\ tt_log = NoLog
    /\ ev_log = NoEvLog
    /\ bot = BotIdle
    /\ order_log = NoOrderLog

OrderIdle == UNCHANGED <<game, board, tt, nodes_searched, expired, pc, iter, stack, ret,
                         result, searches, obs, tt_log, ev_log, bot>>

\* a quiet move cut a node of some depth off (lines 230-233)
OrderStoreKillerOp ==
    /\ \E m \in OrderKillers, d \in 1 .. MaxOrderDepth :
        killer_moves' = StoreKiller(killer_moves, m, d)
    /\ order_log' = NoOrderLog
    /\ UNCHANGED history
    /\ OrderIdle

\* a quiet move raised alpha at a node of some depth (lines 222-228)
OrderHistoryOp ==
    /\ \E m \in OrderCredited, d \in 1 .. MaxOrderDepth :
        /\ HistoryGet(history, m) + d * d <= MaxHistoryWeight
        /\ history' = DictPut(history, <<m.from, m.to>>, HistoryGet(history, m) + d * d)
    /\ order_log' = NoOrderLog
    /\ UNCHANGED killer_moves
    /\ OrderIdle

\* _order_moves(board, depth, hash_move), called once on the tables as they are
OrderMovesOp ==
    /\ order_log.calls = 0
    /\ \E d \in 1 .. MaxOrderDepth, hm \in OrderHashMoves :
        order_log' = [calls |-> 1, depth |-> d, hash_move |-> hm,
                      moves |-> OrderMoves(OrderPosition, d, hm, killer_moves, history)]
    /\ UNCHANGED <<killer_moves, history>>
    /\ OrderIdle

OrderNext ==
    \/ OrderStoreKillerOp
    \/ OrderHistoryOp
    \/ OrderMovesOp

OrderSpec == OrderInit /\ [][OrderNext]_vars

\* MVV-LVA of a capture: the type of the piece taken times 100 minus the type
\* of the piece taking; an en-passant capture takes a pawn (type 1)
MvvLva(p, m) == (IF Victim(p, m) = 0 THEN 1 ELSE Victim(p, m)) * 100 - Attacker(p, m)

\* the returned list holds a capture, the hash move, a killer of the depth
OrderedCapture(i) == IsCapture(OrderPosition, order_log.moves[i])

OrderedHash(i) == order_log.moves[i] = order_log.hash_move

OrderedKiller(i, slot) == order_log.moves[i] = killer_moves[order_log.depth][slot]

\* C23 as stated: in the list _order_moves returns the hash move, when legal,
\* is first; every capture comes before every non-capture other than the
\* hash move; the captures are in non-increasing MVV-LVA order; the first and
\* the second killer of the depth come, in that order, before every other
\* non-capture.
C23_HashCapturesKillersFirst ==
    order_log.calls > 0 =>
        LET l == order_log.moves
            n == Len(l)
        IN  /\ (\E i \in 1 .. n : OrderedHash(i)) => OrderedHash(1)
            /\ \A i, j \in 1 .. n :
                (OrderedCapture(i) /\ ~OrderedCapture(j) /\ ~OrderedHash(j)) => i < j
            /\ \A i, j \in 1 .. n :
                (i < j /\ OrderedCapture(i) /\ OrderedCapture(j) /\ ~OrderedHash(i))
                    => MvvLva(OrderPosition, l[i]) >= MvvLva(OrderPosition, l[j])
            /\ \A i, j \in 1 .. n :
                (i # j /\ OrderedKiller(i, 1) /\ ~OrderedCapture(i)
                       /\ ~OrderedCapture(j) /\ ~OrderedHash(j)) => i < j
            /\ \A i, j \in 1 .. n :
                (i # j /\ OrderedKiller(i, 2) /\ ~OrderedCapture(i)
                       /\ ~OrderedCapture(j) /\ ~OrderedHash(j) /\ ~OrderedKiller(j, 1))
                    => i < j

\* the move at place i of the returned list is a non-capture that is neither
\* the hash move nor a killer of the depth
OrderedPlain(i) ==
    /\ ~OrderedCapture(i)
    /\ ~OrderedHash(i)
    /\ ~OrderedKiller(i, 1)
    /\ ~OrderedKiller(i, 2)

OrderedPromotion(i) == order_log.moves[i].promotion # 0

C25_QuietByHistory ==
    order_log.calls > 0 =>
        \A i, j \in 1 .. Len(order_log.moves) :
            (/\ OrderedPlain(i) /\ ~OrderedPromotion(i)
             /\ OrderedPlain(j) /\ ~OrderedPromotion(j)
             /\ HistoryGet(history, order_log.moves[i]) > HistoryGet(history, order_log.moves[j]))
                => i < j

-----------------------------------------------------------------------------
(* The killer table, checked under Spec *)

\* the step returns a child's score into an _alpha_beta node of depth d whose
\* move m, not a capture, then makes alpha >= beta (lines 215-233)
QuietCutoff(d, m) ==
    /\ stack # <<>>
    /\ Top(stack).fn = "ab"
    /\ Top(stack).at = "wait"
    /\ Len(stack') = Len(stack) - 1
    /\ Top(stack).depth = d
    /\ Top(stack).moves[Top(stack).i] = m
    /\ ~IsCapture(Top(Pop(board)), m)
    /\ PyMax(Top(stack).alpha, Neg(ret)).v >= Top(stack).beta.v

\* C26: whenever the killer table changes, at every depth the two slots hold
\* different moves unless both are empty, and the slots of a depth have
\* changed in one of two ways: reset() has emptied them, or a non-capture
\* that has just caused a beta cutoff at that depth, and was not the first
\* killer already, has become the first killer, the previous first killer
\* the second, the previous second being dropped.  The table starts empty,
\* so in every state the two slots of a depth differ unless both are empty
\* and every killer is a non-capture that caused a cutoff at its depth since
\* the last reset.
C26_KillerSlots ==
    [][killer_moves' # killer_moves =>
        \A d \in DOMAIN killer_moves :
            /\ killer_moves'[d] = <<NoMove, NoMove>> \/ killer_moves'[d][1] # killer_moves'[d][2]
            /\ killer_moves'[d] # killer_moves[d] =>
                \/ obs'.clean /\ killer_moves' = EmptyKillers
                \/ \E i \in DOMAIN Top(stack).moves :
                    LET m == Top(stack).moves[i]
                    IN  /\ QuietCutoff(d, m)
                        /\ m # killer_moves[d][1]
                        /\ killer_moves'[d] = <<m, killer_moves[d][1]>>]_vars

\* a depth holds two killers, the second of which was the first before the
\* last cutoff at that depth was recorded
C26_Witness ==
    \E d \in DOMAIN killer_moves :
        /\ killer_moves[d][1] # NoMove
        /\ killer_moves[d][2] # NoMove
        /\ killer_moves[d][1] # killer_moves[d][2]

-----------------------------------------------------------------------------
(* Iterative deepening, checked under Spec *)

\* a score whose absolute value exceeds MATE_SCORE - 100
IsMateScore(sc) == sc.v > MATE_SCORE - MateWindow \/ sc.v < MateWindow - MATE_SCORE

\* C27: find_best_move starts its loop at depth 1; every root search it
\* starts has the depth of the loop variable, which is at most max_depth; the
\* loop variable changes only at the end of an iteration, by exactly one, and
\* only when the score that iteration returned is no mate score: after a
\* mate score the call ends and no deeper iteration is started.
C27_DeepeningOrder ==
    [][/\ (pc \in {"idle", "done"} /\ pc' = "loop") => iter'.depth = 1
       /\ (pc = "loop" /\ pc' = "search") =>
            /\ stack'[1].fn = "root"
            /\ stack'[1].depth = iter.depth
            /\ iter.depth \in 1 .. MaxDepth
       /\ (pc = "after" /\ IsMateScore(iter.score)) => pc' = "done"
       /\ (pc = "after" /\ pc' = "loop") => iter'.depth = iter.depth + 1
       /\ iter'.depth # iter.depth =>
            \/ pc \in {"idle", "done"} /\ pc' = "loop"
            \/ pc = "after" /\ pc' = "loop"]_vars

\* an iteration below max_depth has searched the tree and returned a mate
\* score before the deadline, and find_best_move has returned its move
\* without starting a deeper one
C27_Witness ==
    /\ FindDone
    /\ ~expired
    /\ nodes_searched > 0
    /\ iter.depth < MaxDepth
    /\ IsMateScore(iter.score)
    /\ result.kind = "return"
    /\ IsRootMove(result.move)
    /\ result.move = iter.move

-----------------------------------------------------------------------------
(* The overshoot past the deadline, checked under Spec *)

\* nodes counted since the time check that found the deadline expired
NodesAfterExpiry == nodes_searched - obs.abort_nodes

\* C28: once a time check of find_best_move's search has found the deadline
\* expired, at most one check interval of further nodes is visited before
\* find_best_move returns.
C28_AbortEndsSearch ==
    (obs.call = "find" /\ expired /\ obs.abort_depth > 0) =>
        NodesAfterExpiry <= CheckInterval

-----------------------------------------------------------------------------
(* The table under an expired deadline, checked under Spec *)

\* C29: while a search is running whose deadline a time check has found
\* expired, nothing is stored in the transposition table.
C29_NoStoreAfterExpiry ==
    [][(expired /\ stack # <<>>) => tt'.table = tt.table]_vars

-----------------------------------------------------------------------------
(* The depth of the recursion and termination, checked under DepthSpec:
   find_best_move and _search_root on the position "T", where one move draws
   and the other starts a line of captures longer than the search can follow.
   A call that has started keeps running. *)

DepthInit ==
    /\ status = StatusOf({<<"TD", "draw">>})
    /\ ev = BaseEval
    /\ ply0 = 0
    /\ use_quiescence \in BOOLEAN
    /\ board = <<"T">>
    /\ tt = EmptyTable
    /\ killer_moves = EmptyKillers
    /\ history = <<>>
    /\ nodes_searched = 0
    /\ expired = FALSE
    /\ pc = "idle"
    /\ iter = IterLocals(0, NoMove, IntScore(0), IntScore(0), NoMove)
    /\ stack = <<>>
    /\ ret = IntScore(0)
    /\ result = NoResult
    /\ searches = 0
    /\ obs = InitObs
    /\ tt_log = NoLog
    /\ ev_log = NoEvLog
    /\ bot = BotIdle
    /\ order_log = NoOrderLog

DepthSpec == DepthInit /\ [][Next]_vars /\ WF_vars(Next)

\* moves pushed on the caller's position and not popped yet
PushedMoves == Len(board) - 1

\* a call of find_best_move that has not returned
FindRunning == obs.call = "find" /\ pc \in {"loop", "search", "after"}

\* C30: find_best_move terminates; every recursive _alpha_beta and
\* _quiescence call gets its caller's depth less one and is made with one
\* more move on the board; the moves pushed by the search never exceed max_depth +
\* quiescence_depth (the null move the evaluator pushes and pops inside
\* evaluate is not one of them); the deepening loop searches depths up to
\* max_depth only.
C30_SearchTerminates ==
    /\ [](PushedMoves <= MaxDepth + QuiescenceDepth)
    /\ []((stack # <<>> /\ pc = "search") =>
            /\ iter.depth <= MaxDepth
            /\ stack[1].depth = iter.depth)
    /\ [][(stack # <<>> /\ Len(stack') = Len(stack) + 1) =>
            /\ Top(stack').depth = Top(stack).depth - 1
            /\ Top(stack').fn = (IF Top(stack).fn = "q" THEN "q" ELSE "ab")
            /\ Len(board') = Len(stack')]_vars
    /\ FindRunning ~> FindDone

\* find_best_move's search of depth max_depth has pushed max_depth +
\* quiescence_depth moves and stops there, with a capture still to be had
C30_Witness ==
    /\ FindRunning
    /\ iter.depth = MaxDepth
    /\ PushedMoves = MaxDepth + QuiescenceDepth
    /\ Top(stack).fn = "q"
    /\ Top(stack).depth = 0
    /\ GetCaptures(Top(board)) # <<>>

=============================================================================
